---- MODULE Spec2Model ----
(***************************************************************************)
(* Batch PDF summarisation and mail delivery: PDFSummarizer                *)
(* (src/pdf_summarizer.py) driving EmailSender (src/email_sender.py).      *)
(* One run of scan_and_process_pdfs is modelled statement group by         *)
(* statement group; everything outside the process (the directory, the    *)
(* PDF library, the completion backend, the filesystem, the mail relay)   *)
(* answers nondeterministically.                                           *)
(***************************************************************************)
EXTENDS Integers, Sequences, FiniteSets, TLC

VARIABLES
    cfg,        \* config.toml values and the call's arguments (immutable)
    walk,       \* file names in os.walk order; a path is an index into walk
    pc,         \* position of the single thread of control
    pdf_files,  \* the local list of scan_and_process_pdfs
    i,          \* enumerate(pdf_files, 1) loop index
    stats,      \* the stats dict {total, success, failed}
    cur,        \* what the current process_pdf invocation did and saw
    invoked,    \* history: paths process_pdf was called with, in call order
    results,    \* history: how each invocation ended ("True","False","raised")
    sleeps      \* history: number of time.sleep(2) calls

vars == <<cfg, walk, pc, pdf_files, i, stats, cur, invoked, results, sleeps>>

----------------------------------------------------------------------------
(* Bounds of the model *)

\* Longest directory listing explored
MaxFiles == 2
\* Largest integer passed as max_files
MaxCap == 2
\* Longest attachment list passed to send_email on its own
MaxAttachments == 2

(* Program constants *)

\* summarize_text rejects stripped texts shorter than this
MinTextLen == 100

----------------------------------------------------------------------------
(* Strings are sequences of one-character strings *)

Min(a, b) == IF a < b THEN a ELSE b
Max(a, b) == IF a > b THEN a ELSE b

\* str.lower() on the characters that occur in the modelled names
LowerChar(c) ==
    CASE c = "A" -> "a" [] c = "B" -> "b" [] c = "C" -> "c"
      [] c = "P" -> "p" [] c = "D" -> "d" [] c = "F" -> "f"
      [] OTHER -> c

Lower(s) == [k \in 1..Len(s) |-> LowerChar(s[k])]

EndsWith(s, suffix) ==
    /\ Len(s) >= Len(suffix)
    /\ SubSeq(s, Len(s) - Len(suffix) + 1, Len(s)) = suffix

DotPdf == <<".", "p", "d", "f">>

\* file.lower().endswith('.pdf')
IsPdfName(file) == EndsWith(Lower(file), DotPdf)

\* str.strip() for the blank character
RECURSIVE LStrip(_)
LStrip(s) == IF s # <<>> /\ Head(s) = " " THEN LStrip(Tail(s)) ELSE s

RECURSIVE RStrip(_)
RStrip(s) ==
    IF s # <<>> /\ s[Len(s)] = " " THEN RStrip(SubSeq(s, 1, Len(s) - 1)) ELSE s

Strip(s) == RStrip(LStrip(s))

\* Optional[int]: None is the empty sequence, an int n is <<n>>
None == <<>>
Some(n) == <<n>>

\* Python truth value of an Optional[int]
TruthyInt(opt) == opt # None /\ opt[1] # 0

\* Python slice lst[:n]
SliceTo(lst, n) ==
    IF n >= 0 THEN SubSeq(lst, 1, Min(n, Len(lst)))
    ELSE SubSeq(lst, 1, Max(Len(lst) + n, 0))

----------------------------------------------------------------------------
(* Exceptions *)

\* The base class of each exception class that the modelled calls raise
BaseOf(c) ==
    CASE c = "SMTPAuthenticationError" -> "SMTPException"
      [] c = "SMTPException" -> "OSError"
      [] c = "OSError" -> "Exception"
      [] c = "KeyError" -> "Exception"
      [] c = "Exception" -> "BaseException"
      [] OTHER -> "object"

RECURSIVE IsInstance(_, _)
IsInstance(c, handler) ==
    IF c = handler THEN TRUE
    ELSE IF c = "object" THEN FALSE
    ELSE IsInstance(BaseOf(c), handler)

----------------------------------------------------------------------------
(* Extracted text: lead and trail count the blank characters around a   *)
(* core that starts and ends with a non-blank character                  *)

Text(lead, core, trail) == [lead |-> lead, core |-> core, trail |-> trail]

TextLen(t) == t.lead + t.core + t.trail

\* len(text.strip())
StripLen(t) == t.core

\* Values extract_text_from_pdf may return
Texts ==
    { Text(0, 0, 0),                  \* "" : unreadable, no library, no text
      Text(2, 0, 0),                  \* blank characters only
      Text(1, MinTextLen - 1, 1),     \* long enough only before stripping
      Text(0, MinTextLen, 0),
      Text(1, MinTextLen, 1) }

----------------------------------------------------------------------------
(* Configuration and the PDFSummarizer built from it *)

\* A setting is modelled by whether it holds a non-empty string
ApiConfigs ==
    { [api_key |-> TRUE,  endpoint |-> TRUE],
      [api_key |-> TRUE,  endpoint |-> FALSE],
      [api_key |-> FALSE, endpoint |-> TRUE] }

SmtpConfigs ==
    { [smtp_server |-> TRUE,  sender_email |-> TRUE,  sender_password |-> TRUE],
      [smtp_server |-> FALSE, sender_email |-> TRUE,  sender_password |-> TRUE],
      [smtp_server |-> TRUE,  sender_email |-> FALSE, sender_password |-> TRUE],
      [smtp_server |-> TRUE,  sender_email |-> TRUE,  sender_password |-> FALSE] }

\* receiver_email, given as its comma-separated fields
ReceiverInputs ==
    { << <<>> >>,                                       \* ''
      << <<" ">>, <<" ">> >>,                           \* ' , '
      << <<" ", "a">>, <<" ">>, <<"b", " ">> >> }       \* ' a, ,b '

\* A subject template is a sequence of literal pieces and replacement fields
Lit(text) == [field |-> FALSE, name |-> text]
Field(name) == [field |-> TRUE, name |-> name]

TemplateInputs ==
    { << Lit("Summary: "), Field("filename") >>,
      << Lit("Summary: "), Field("title") >> }

\* self.client: built only when key and endpoint are both set
Client(c) == c.api_key /\ c.endpoint

\* self.email_sender: None unless the three relay settings are all set
EmailSenderOf(c) ==
    IF c.smtp_server /\ c.sender_email /\ c.sender_password
    THEN Some([use_tls |-> c.use_tls])
    ELSE None

\* self.receiver_emails: fields stripped, empty ones dropped
ReceiverEmails(c) ==
    SelectSeq([k \in 1..Len(c.receiver_email) |-> Strip(c.receiver_email[k])],
              LAMBDA e : e # <<>>)

\* str.format(filename=...): a field other than filename raises KeyError
FormatSubject(template, filename) ==
    IF \E k \in 1..Len(template) :
          template[k].field /\ template[k].name # "filename"
    THEN [raised |-> "KeyError", value |-> <<>>]
    ELSE [raised |-> "none",
          value |-> [k \in 1..Len(template) |->
                        IF template[k].field THEN filename
                        ELSE template[k].name]]

----------------------------------------------------------------------------
(* The directory *)

FileNames ==
    { <<"a", ".", "p", "d", "f">>,
      <<"B", ".", "P", "D", "F">>,
      <<"c", ".", "t", "x", "t">> }

Walks == UNION { [1..n -> FileNames] : n \in 0..MaxFiles }

CapInputs == {None} \cup { Some(n) : n \in 0..MaxCap }

\* Discovery that keeps every file of the walk
DiscoverAllFiles(w) == [k \in 1..Len(w) |-> k]

\* Discovery that compares the suffix without lower()
DiscoverCaseSensitive(w) ==
    SelectSeq([k \in 1..Len(w) |-> k], LAMBDA k : EndsWith(w[k], DotPdf))

\* Lines 324-328: the paths whose name ends in .pdf, in walk order
Discover(w) ==
    SelectSeq([k \in 1..Len(w) |-> k], LAMBDA k : IsPdfName(w[k]))

\* Lines 337-338: if max_files: pdf_files = pdf_files[:max_files]
ApplyCap(files, max_files) ==
    IF TruthyInt(max_files) THEN SliceTo(files, max_files[1]) ELSE files

----------------------------------------------------------------------------
(* State of one process_pdf invocation *)

FreshDoc(path) ==
    [ path          |-> path,          \* index into walk, 0 before any call
      text          |-> Text(0, 0, 0), \* extract_text_from_pdf's result
      summary       |-> "none",        \* summarize_text: "ok" or "failed"
      backend_calls |-> 0,             \* client.chat.completions.create calls
      send_calls    |-> 0,             \* EmailSender.send_email calls
      attachments   |-> <<>>,          \* send_email's attachments argument
      existing      |-> {},            \* the paths os.path.exists found
      attached      |-> <<>>,          \* attachment parts in the message
      session       |-> "none",        \* relay session: "open", "closed"
      sessions      |-> 0,             \* relay sessions opened
      logins        |-> 0,             \* server.login calls
      transmits     |-> 0,             \* server.send_message calls
      transmitted   |-> 0,             \* server.send_message calls that succeeded
      failed_at     |-> "none",        \* send_email statement that raised
      exc           |-> "none",        \* class of the exception in flight
      send_class    |-> "none",        \* except clause send_email ran
      send_ret      |-> "none",        \* send_email's return value
      terminal      |-> "none",        \* stage at which process_pdf ended
      ret           |-> "none" ]       \* "True", "False" or "raised"

ZeroStats == [total |-> 0, success |-> 0, failed |-> 0]

\* The configurations and arguments explored
CfgInputs ==
               { [ api_key          |-> a.api_key,
                   endpoint         |-> a.endpoint,
                   smtp_server      |-> m.smtp_server,
                   sender_email     |-> m.sender_email,
                   sender_password  |-> m.sender_password,
                   use_tls          |-> tls,
                   receiver_email   |-> r,
                   subject_template |-> t,
                   send_email       |-> se,
                   max_files        |-> cap ] :
                 a \in ApiConfigs, m \in SmtpConfigs, tls \in BOOLEAN,
                 r \in ReceiverInputs, t \in TemplateInputs,
                 se \in BOOLEAN, cap \in CapInputs }

Init ==
    /\ cfg \in CfgInputs
    /\ walk \in Walks
    /\ pc = "main"
    /\ pdf_files = <<>>
    /\ i = 0
    /\ stats = ZeroStats
    /\ cur = FreshDoc(0)
    /\ invoked = <<>>
    /\ results = <<>>
    /\ sleeps = 0

----------------------------------------------------------------------------
(* main, run as: pdf_summarizer.py -d <existing directory> [-n N] [--no-email] *)
(* with a config.toml that loads                                            *)

\* A start-up check that lets every configuration through
RequiredSettingsUnchecked(c) == TRUE

\* Lines 441-444: the settings main refuses to start without
RequiredSettings(c) == c.api_key

\* Lines 435-466: the check of the required settings, PDFSummarizer(config),
\* then scan_and_process_pdfs(args.directory, send_email, args.max_files)
Main ==
    /\ pc = "main"
    /\ pc' = IF RequiredSettings(cfg) THEN "scan" ELSE "exit"
    /\ UNCHANGED <<cfg, walk, pdf_files, i, stats, cur, invoked, results, sleeps>>

----------------------------------------------------------------------------
(* scan_and_process_pdfs *)

\* Lines 321-342: discovery, the early return on an empty list, the cap
Scan ==
    /\ pc = "scan"
    /\ LET found == Discover(walk)
           kept  == ApplyCap(found, cfg.max_files)
       IN  IF found = <<>>
           THEN /\ pc' = "done"
                /\ stats' = ZeroStats
                /\ UNCHANGED <<pdf_files, i>>
           ELSE /\ pdf_files' = kept
                /\ stats' = [total |-> Len(kept), success |-> 0, failed |-> 0]
                /\ i' = 1
                /\ pc' = "loop"
    /\ UNCHANGED <<cfg, walk, cur, invoked, results, sleeps>>

\* Lines 344-348: the next iteration calls process_pdf(pdf_path, send_email)
Invoke ==
    /\ pc = "loop"
    /\ i <= Len(pdf_files)
    /\ cur' = FreshDoc(pdf_files[i])
    /\ invoked' = Append(invoked, pdf_files[i])
    /\ pc' = "extract"
    /\ UNCHANGED <<cfg, walk, pdf_files, i, stats, results, sleeps>>

\* Lines 361-369: the list is exhausted, the tally is returned
Finish ==
    /\ pc = "loop"
    /\ i > Len(pdf_files)
    /\ pc' = "done"
    /\ UNCHANGED <<cfg, walk, pdf_files, i, stats, cur, invoked, results, sleeps>>

----------------------------------------------------------------------------
(* process_pdf *)

\* Lines 151 and 274: Python truth value of a str
TruthyText(t) == TextLen(t) > 0

\* The length check taken on the text as extracted, without strip()
TooShortUnstripped(t) == ~TruthyText(t) \/ TextLen(t) < MinTextLen

\* Line 151: not text or len(text.strip()) < 100
TooShort(t) == ~TruthyText(t) \/ StripLen(t) < MinTextLen

\* The delivery decision without the test of the recipient list
ShouldSendAnyReceivers(send_email, email_sender, receiver_emails) ==
    send_email /\ email_sender # None

\* Line 287: send_email and self.email_sender and self.receiver_emails
ShouldSend(send_email, email_sender, receiver_emails) ==
    send_email /\ email_sender # None /\ receiver_emails # <<>>

\* process_pdf returns value r at the named terminal stage
Return(doc, r, stage) == [doc EXCEPT !.ret = r, !.terminal = stage]

\* An exception of class c leaves process_pdf
Raise(doc, c) == [doc EXCEPT !.ret = "raised", !.exc = c]

\* Lines 267-276: extract_text_from_pdf (lines 109-135, "" on any failure),
\* then the check for an empty text
Extract ==
    /\ pc = "extract"
    /\ \E t \in Texts :
          IF TruthyText(t)
          THEN /\ cur' = [cur EXCEPT !.text = t]
               /\ pc' = "summarize"
          ELSE /\ cur' = Return([cur EXCEPT !.text = t], "False", "EXTRACT_FAILED")
               /\ pc' = "tally"
    /\ UNCHANGED <<cfg, walk, pdf_files, i, stats, invoked, results, sleeps>>

\* Lines 279-284: summarize_text (lines 147-186) and the check of its result;
\* the try block turns every backend or response error into None
Summarize ==
    /\ pc = "summarize"
    /\ IF ~Client(cfg) \/ TooShort(cur.text)
       THEN /\ cur' = Return([cur EXCEPT !.summary = "failed"],
                             "False", "SUMMARIZE_FAILED")
            /\ pc' = "tally"
       ELSE \E answer \in {"ok", "error"} :
               LET called == [cur EXCEPT !.backend_calls = @ + 1]
               IN  IF answer = "ok"
                   THEN /\ cur' = [called EXCEPT !.summary = "ok"]
                        /\ pc' = "deliver"
                   ELSE /\ cur' = Return([called EXCEPT !.summary = "failed"],
                                         "False", "SUMMARIZE_FAILED")
                        /\ pc' = "tally"
    /\ UNCHANGED <<cfg, walk, pdf_files, i, stats, invoked, results, sleeps>>

\* Lines 287-296 and 304-307: the delivery decision; when delivering, the
\* subject (str.format) and the body (create_email_body, whose os.path.getsize
\* at line 200 raises OSError when the file cannot be stat'ed) are built
\* outside any try block, then send_email is called
Deliver ==
    /\ pc = "deliver"
    /\ IF ShouldSend(cfg.send_email, EmailSenderOf(cfg), ReceiverEmails(cfg))
       THEN LET subject == FormatSubject(cfg.subject_template, walk[cur.path])
            IN  IF subject.raised # "none"
                THEN /\ cur' = Raise(cur, subject.raised)
                     /\ pc' = "tally"
                ELSE \E getsize \in {"ok", "OSError"} :
                        IF getsize = "ok"
                        THEN /\ cur' = [cur EXCEPT !.send_calls = @ + 1,
                                                   !.attachments = <<cur.path>>]
                             /\ pc' = "smtp_compose"
                        ELSE /\ cur' = Raise(cur, getsize)
                             /\ pc' = "tally"
       ELSE /\ cur' = Return(cur, "True", "DONE")
            /\ pc' = "tally"
    /\ UNCHANGED <<cfg, walk, pdf_files, i, stats, invoked, results, sleeps>>

\* Lines 298-303: send_email's result becomes process_pdf's result
AfterSend ==
    /\ pc = "after_send"
    /\ cur' = IF cur.send_ret = "True"
              THEN Return(cur, "True", "DONE")
              ELSE Return(cur, "False", "SEND_FAILED")
    /\ pc' = "tally"
    /\ UNCHANGED <<cfg, walk, pdf_files, i, stats, invoked, results, sleeps>>

----------------------------------------------------------------------------
(* EmailSender.send_email: one try block, lines 50-103 *)

\* The statement stmt raises an exception of class c inside the try block
Throw(doc, stmt, c) == [doc EXCEPT !.exc = c, !.failed_at = stmt]

\* What a call on the relay session may answer besides success
SmtpErrors == {"SMTPException", "OSError"}

\* The session after a call on it raised: send_email itself does nothing to
\* it; smtplib has dropped the connection or not, except after a rejected
\* login, which the relay answers on a connection that stays up
SessionAfter(session, raised) ==
    IF raised = "SMTPAuthenticationError" THEN {session}
    ELSE {session, "closed"}

\* A call on the open session raises an exception of class c
ThrowOnSession(doc, stmt, c) ==
    { Throw([doc EXCEPT !.session = after], stmt, c) :
         after \in SessionAfter(doc.session, c) }

\* The elements of a sequence
Range(seq) == { seq[k] : k \in DOMAIN seq }

\* The attachment loop ended at the first path that does not exist
ComposePartsUntilMissing(attachments, existing) ==
    LET missing == { k \in DOMAIN attachments : attachments[k] \notin existing }
    IN  IF missing = {} THEN attachments
        ELSE SubSeq(attachments, 1,
                    (CHOOSE k \in missing : \A m \in missing : k <= m) - 1)

\* Lines 61-88: one part per attachment path that exists, in list order;
\* a path that does not exist is skipped
ComposeParts(attachments, existing) ==
    SelectSeq(attachments, LAMBDA path : path \in existing)

\* Lines 52-88: headers, body and the attachments; reading a file that
\* exists may fail
SmtpCompose ==
    /\ pc = "smtp_compose"
    /\ \E existing \in SUBSET Range(cur.attachments), read \in {"ok", "OSError"} :
          LET parts == ComposeParts(cur.attachments, existing)
              seen  == [cur EXCEPT !.existing = existing]
          IN  IF read = "ok"
              THEN /\ cur' = [seen EXCEPT !.attached = parts]
                   /\ pc' = "smtp_connect"
              ELSE /\ parts # <<>>
                   /\ cur' = Throw(seen, "compose", read)
                   /\ pc' = "smtp_except"
    /\ UNCHANGED <<cfg, walk, pdf_files, i, stats, invoked, results, sleeps>>

\* Lines 91-95: smtplib.SMTP(...) or smtplib.SMTP_SSL(...) opens the session
SmtpConnect ==
    /\ pc = "smtp_connect"
    /\ \E answer \in {"ok"} \cup SmtpErrors :
          IF answer = "ok"
          THEN /\ cur' = [cur EXCEPT !.session = "open", !.sessions = @ + 1]
               /\ pc' = IF EmailSenderOf(cfg)[1].use_tls
                        THEN "smtp_starttls" ELSE "smtp_login"
          ELSE /\ cur' = Throw(cur, "connect", answer)
               /\ pc' = "smtp_except"
    /\ UNCHANGED <<cfg, walk, pdf_files, i, stats, invoked, results, sleeps>>

\* Line 93: server.starttls(), only when use_tls
SmtpStartTls ==
    /\ pc = "smtp_starttls"
    /\ \E answer \in {"ok"} \cup SmtpErrors :
          IF answer = "ok"
          THEN /\ cur' = cur
               /\ pc' = "smtp_login"
          ELSE /\ cur' \in ThrowOnSession(cur, "starttls", answer)
               /\ pc' = "smtp_except"
    /\ UNCHANGED <<cfg, walk, pdf_files, i, stats, invoked, results, sleeps>>

\* Line 97: server.login(...); a rejected credential raises
\* SMTPAuthenticationError
SmtpLogin ==
    /\ pc = "smtp_login"
    /\ \E answer \in {"ok", "SMTPAuthenticationError"} \cup SmtpErrors :
          LET tried == [cur EXCEPT !.logins = @ + 1]
          IN  IF answer = "ok"
              THEN /\ cur' = tried
                   /\ pc' = "smtp_send"
              ELSE /\ cur' \in ThrowOnSession(tried, "login", answer)
                   /\ pc' = "smtp_except"
    /\ UNCHANGED <<cfg, walk, pdf_files, i, stats, invoked, results, sleeps>>

\* Line 98: server.send_message(msg)
SmtpSend ==
    /\ pc = "smtp_send"
    /\ \E answer \in {"ok"} \cup SmtpErrors :
          LET tried == [cur EXCEPT !.transmits = @ + 1]
          IN  IF answer = "ok"
              THEN /\ cur' = [tried EXCEPT !.transmitted = @ + 1]
                   /\ pc' = "smtp_quit"
              ELSE /\ cur' \in ThrowOnSession(tried, "send_message", answer)
                   /\ pc' = "smtp_except"
    /\ UNCHANGED <<cfg, walk, pdf_files, i, stats, invoked, results, sleeps>>

\* Lines 99-103: server.quit(), then return True
SmtpQuit ==
    /\ pc = "smtp_quit"
    /\ \E answer \in {"ok"} \cup SmtpErrors :
          IF answer = "ok"
          THEN /\ cur' = [cur EXCEPT !.session = "closed", !.send_ret = "True"]
               /\ pc' = "after_send"
          ELSE /\ cur' \in ThrowOnSession(cur, "quit", answer)
               /\ pc' = "smtp_except"
    /\ UNCHANGED <<cfg, walk, pdf_files, i, stats, invoked, results, sleeps>>

\* The except clauses with the general SMTP clause moved to the front
ExceptClausesReordered ==
    << [catches |-> "SMTPException",           class |-> "protocol"],
       [catches |-> "SMTPAuthenticationError", class |-> "auth"],
       [catches |-> "Exception",               class |-> "generic"] >>

\* The except clauses without the catch-all clause
ExceptClausesSmtpOnly ==
    << [catches |-> "SMTPAuthenticationError", class |-> "auth"],
       [catches |-> "SMTPException",           class |-> "protocol"] >>

\* Lines 105-111: the except clauses in source order, with the failure
\* class each one reports
ExceptClauses ==
    << [catches |-> "SMTPAuthenticationError", class |-> "auth"],
       [catches |-> "SMTPException",           class |-> "protocol"],
       [catches |-> "Exception",               class |-> "generic"] >>

\* The first except clause that matches an exception of class c, 0 if none
MatchingClause(clauses, c) ==
    LET hits == { k \in 1..Len(clauses) : IsInstance(c, clauses[k].catches) }
    IN  IF hits = {} THEN 0 ELSE CHOOSE k \in hits : \A h \in hits : k <= h

\* Lines 105-113: the matching clause reports the failure and returns False
SmtpExcept ==
    /\ pc = "smtp_except"
    /\ LET k == MatchingClause(ExceptClauses, cur.exc)
       IN  IF k = 0
           THEN /\ cur' = Raise(cur, cur.exc)
                /\ pc' = "tally"
           ELSE /\ cur' = [cur EXCEPT !.send_class = ExceptClauses[k].class,
                                      !.send_ret = "False"]
                /\ pc' = "after_send"
    /\ UNCHANGED <<cfg, walk, pdf_files, i, stats, invoked, results, sleeps>>

----------------------------------------------------------------------------
(* The loop body after the call: lines 347-359 *)

\* Counting that drops the else branch
CountSuccessOnly(st, ret) ==
    IF ret = "True" THEN [st EXCEPT !.success = @ + 1] ELSE st

\* Counting that treats every result after a first failure as a failure
CountStickyFailure(st, ret) ==
    IF ret = "True" /\ st.failed = 0 THEN [st EXCEPT !.success = @ + 1]
    ELSE [st EXCEPT !.failed = @ + 1]

\* Counting that increments failed in both branches
CountAlwaysFailed(st, ret) == [st EXCEPT !.failed = @ + 1]

\* Counting that puts a call that returned True on both sides
CountTrueTwice(st, ret) ==
    IF ret = "True"
    THEN [st EXCEPT !.success = @ + 1, !.failed = @ + 1]
    ELSE [st EXCEPT !.failed = @ + 1]

\* Lines 349-352: the counter a returned value increments
Count(st, ret) ==
    IF ret = "True" THEN [st EXCEPT !.success = @ + 1]
    ELSE [st EXCEPT !.failed = @ + 1]

\* A loop except clause that names OSError only
LoopCatchesOSError == "OSError"

\* Line 353: the class the loop's except clause catches
LoopCatches == "Exception"

\* A pause after every document, the last one included
ShouldPauseAlways(index, n) == TRUE

\* Line 358: the pause is skipped after the last document
ShouldPause(index, n) == index < n

\* The same document again after a call that did not return True
NextIndexRetryFailed(index, ret) == IF ret = "True" THEN index + 1 ELSE index

\* Line 344: enumerate hands out the next document whatever the call on the
\* current one returned or raised
NextIndex(index, ret) == index + 1

\* Lines 347-359: count the outcome of the call, pause, go to the next
\* document; an exception the except clause does not match leaves the loop
Tally ==
    /\ pc = "tally"
    /\ IF cur.ret = "raised" /\ ~IsInstance(cur.exc, LoopCatches)
       THEN /\ pc' = "crashed"
            /\ UNCHANGED <<stats, i, sleeps>>
       ELSE /\ stats' = IF cur.ret = "raised"
                        THEN [stats EXCEPT !.failed = @ + 1]
                        ELSE Count(stats, cur.ret)
            /\ sleeps' = IF ShouldPause(i, Len(pdf_files))
                         THEN sleeps + 1 ELSE sleeps
            /\ i' = NextIndex(i, cur.ret)
            /\ pc' = "loop"
    /\ results' = Append(results, cur.ret)
    /\ UNCHANGED <<cfg, walk, pdf_files, cur, invoked>>

----------------------------------------------------------------------------

Next ==
    \/ Main
    \/ Scan
    \/ Invoke
    \/ Finish
    \/ Extract
    \/ Summarize
    \/ Deliver
    \/ SmtpCompose
    \/ SmtpConnect
    \/ SmtpStartTls
    \/ SmtpLogin
    \/ SmtpSend
    \/ SmtpQuit
    \/ SmtpExcept
    \/ AfterSend
    \/ Tally

Spec == Init /\ [][Next]_vars

\* The single thread keeps running and every external call (extraction,
\* backend, filesystem, relay) eventually returns or raises
FairSpec == Spec /\ WF_vars(Next)

----------------------------------------------------------------------------
(* EmailSender.send_email called on its own with an attachment list *)

\* The attachment lists explored: paths of the two files of the directory
AttachmentLists == UNION { [1..n -> {1, 2}] : n \in 0..MaxAttachments }

\* A configured EmailSender about to run send_email(receivers, subject,
\* body, attachments)
SendInit ==
    /\ cfg \in { c \in CfgInputs :
                    /\ Client(c)
                    /\ ShouldSend(c.send_email, EmailSenderOf(c), ReceiverEmails(c))
                    /\ FormatSubject(c.subject_template, <<>>).raised = "none"
                    /\ c.max_files = None }
    /\ walk = << <<"a", ".", "p", "d", "f">>, <<"B", ".", "P", "D", "F">> >>
    /\ pc = "smtp_compose"
    /\ pdf_files = <<>>
    /\ i = 0
    /\ stats = ZeroStats
    /\ \E attachments \in AttachmentLists :
          cur = [FreshDoc(0) EXCEPT !.send_calls = 1, !.attachments = attachments]
    /\ invoked = <<>>
    /\ results = <<>>
    /\ sleeps = 0

SendNext ==
    \/ SmtpCompose
    \/ SmtpConnect
    \/ SmtpStartTls
    \/ SmtpLogin
    \/ SmtpSend
    \/ SmtpQuit
    \/ SmtpExcept

SendSpec == SendInit /\ [][SendNext]_vars

----------------------------------------------------------------------------
(* Properties *)

\* C1: when scan_and_process_pdfs has returned, total = success + failed,
\* whatever the list, the cap and the outcomes of the documents
C1_TotalIsSuccessPlusFailed ==
    pc = "done" => stats.total = stats.success + stats.failed

\* C1 witness: a finished batch with a success and an escaped exception
C1_Witness ==
    /\ pc = "done"
    /\ stats.success >= 1
    /\ \E k \in DOMAIN results : results[k] = "raised"

\* C2 (as claimed): with an integer cap N >= 0, process_pdf is invoked on at
\* most N documents, total <= N, and the documents are the first N discovered
C2_CapBoundsInvocations ==
    (cfg.max_files # None /\ cfg.max_files[1] >= 0) =>
        /\ Len(invoked) <= cfg.max_files[1]
        /\ pc = "done" => stats.total <= cfg.max_files[1]
        /\ \A k \in DOMAIN invoked :
              /\ IsPdfName(walk[invoked[k]])
              /\ Cardinality({ j \in 1..invoked[k] : IsPdfName(walk[j]) }) = k

\* C3: without a cap, every discovered .pdf file gets exactly one process_pdf
\* call, the calls come in discovered order, and a call starts only after the
\* one before it has ended, whatever its outcome
C3_NoCapEachPdfOnceInOrder ==
    cfg.max_files = None =>
        /\ \A k \in DOMAIN invoked : IsPdfName(walk[invoked[k]])
        /\ \A j, k \in DOMAIN invoked : j < k => invoked[j] < invoked[k]
        /\ Len(invoked) - Len(results) \in {0, 1}
        /\ pc = "done" =>
              \A f \in DOMAIN walk :
                 IsPdfName(walk[f]) =>
                    Cardinality({ k \in DOMAIN invoked : invoked[k] = f }) = 1

\* C3 witness: an uncapped batch of two documents, the first of which raised
C3_Witness ==
    /\ cfg.max_files = None
    /\ pc = "done"
    /\ Len(invoked) = 2
    /\ results[1] = "raised"

\* C4: an exception raised by process_pdf for document i is caught in the
\* loop: failed grows by one, success stays, the loop moves to i + 1 and
\* calls process_pdf on the next document, and nothing leaves the loop
C4_LoopCatchesException ==
    [][ /\ (pc = "tally" /\ cur.ret = "raised") =>
              /\ stats'.failed = stats.failed + 1
              /\ stats'.success = stats.success
              /\ pc' = "loop"
              /\ i' = i + 1
        /\ (pc = "loop" /\ i <= Len(pdf_files)) =>
              /\ pc' = "extract"
              /\ invoked' = Append(invoked, pdf_files[i])
      ]_vars

\* C4 witness: a document raised, was counted failed, and the next was called
C4_Witness ==
    \E k \in DOMAIN results :
       /\ results[k] = "raised"
       /\ Len(invoked) > k
       /\ stats.failed >= 1

\* C5 (as claimed): process_pdf always ends by returning a boolean, never
\* by an exception
C5_ProcessPdfNeverRaises ==
    /\ cur.ret # "raised"
    /\ pc = "tally" => cur.ret \in {"True", "False"}

\* C6: a document whose text is empty or shorter than 100 characters once
\* stripped gets no backend call and no send_email call, and process_pdf
\* returns False for it
C6_ShortTextNeverSummarized ==
    (TextLen(cur.text) = 0 \/ StripLen(cur.text) < MinTextLen) =>
        /\ cur.backend_calls = 0
        /\ cur.send_calls = 0
        /\ cur.transmitted = 0
        /\ pc = "tally" => cur.ret = "False"

\* C6 witness: a text of more than 100 characters that strips to fewer was
\* rejected although the client is configured
C6_Witness ==
    /\ pc = "tally"
    /\ Client(cfg)
    /\ TextLen(cur.text) > MinTextLen
    /\ StripLen(cur.text) < MinTextLen
    /\ cur.ret = "False"

\* C7 (as claimed): text of at least 100 characters and a successful backend
\* call make process_pdf return True, with no condition on delivery; stated
\* here for the invocations that return a value
C7_SummarizedMeansSuccess ==
    ( /\ pc = "tally"
      /\ StripLen(cur.text) >= MinTextLen
      /\ cur.summary = "ok"
      /\ cur.ret # "raised" )
        => cur.ret = "True"

\* C7 (amended): text of at least 100 characters, a successful backend call,
\* and a delivery that is either skipped or reported successful by send_email
\* make process_pdf return True; the batch then adds one to success and
\* leaves failed alone
C7_SummarizedAndDeliveredMeansSuccess ==
    [][ ( /\ pc = "tally"
          /\ StripLen(cur.text) >= MinTextLen
          /\ cur.summary = "ok"
          /\ \/ ~cfg.send_email
             \/ EmailSenderOf(cfg) = None
             \/ ReceiverEmails(cfg) = <<>>
             \/ cur.send_ret = "True" )
        => /\ cur.ret = "True"
           /\ stats'.success = stats.success + 1
           /\ stats'.failed = stats.failed
      ]_vars

\* C7 witness: a delivered document has been counted as a success
C7_Witness ==
    /\ pc = "loop"
    /\ cur.summary = "ok"
    /\ cur.send_ret = "True"
    /\ cur.ret = "True"
    /\ stats.success >= 1

\* C8: with send_email False, or no recipient, or no mail transport, no
\* send_email call is made and no relay session is opened, and a document
\* that was extracted and summarized makes process_pdf return True
C8_DeliverySkippedStillSuccess ==
    (~cfg.send_email \/ ReceiverEmails(cfg) = <<>> \/ EmailSenderOf(cfg) = None)
        => /\ cur.send_calls = 0
           /\ cur.sessions = 0
           /\ (pc = "tally" /\ cur.summary = "ok") => cur.ret = "True"

\* C8 witness: delivery is on and the transport configured, the recipient
\* setting holds blanks only, and a summarized document returned True
C8_Witness ==
    /\ pc = "tally"
    /\ cfg.send_email
    /\ EmailSenderOf(cfg) # None
    /\ cfg.receiver_email # << <<>> >>
    /\ ReceiverEmails(cfg) = <<>>
    /\ cur.summary = "ok"
    /\ cur.ret = "True"

\* The relay rejected the credential of the current document's session
CredentialRejected ==
    cur.failed_at = "login" /\ cur.exc = "SMTPAuthenticationError"

\* C9: when the relay rejects the credential, send_email reports an
\* authentication failure and returns False, process_pdf returns False
\* although the summary was produced, and the batch counts the document failed
C9_RejectedCredentialFailsAsAuth ==
    [][ /\ (CredentialRejected /\ pc = "smtp_except") =>
              /\ cur'.send_class = "auth"
              /\ cur'.send_ret = "False"
              /\ pc' = "after_send"
        /\ (CredentialRejected /\ pc = "after_send") =>
              /\ cur'.ret = "False"
              /\ cur'.terminal = "SEND_FAILED"
        /\ (CredentialRejected /\ pc = "tally") =>
              /\ cur.ret = "False"
              /\ cur.send_class = "auth"
              /\ cur.summary = "ok"
              /\ stats'.failed = stats.failed + 1
              /\ stats'.success = stats.success
      ]_vars

\* C9 witness: a document whose login was rejected has been counted failed
C9_Witness ==
    /\ pc = "loop"
    /\ CredentialRejected
    /\ cur.send_class = "auth"
    /\ cur.ret = "False"
    /\ stats.failed >= 1

\* C10: send_email never raises; a failure of any of its statements makes it
\* return False in exactly the class of the exception (auth: the login was
\* rejected; protocol: any other SMTP error; generic: anything else); it
\* returns True only after login, transmission and close all completed
C10_SendEmailReturnsClassifiedBool ==
    /\ ~(cur.send_calls > 0 /\ cur.ret = "raised")
    /\ pc = "after_send" =>
          /\ cur.send_ret \in {"True", "False"}
          /\ cur.send_ret = "True" <=> cur.failed_at = "none"
          /\ cur.send_ret = "True" =>
                /\ cur.logins = 1
                /\ cur.transmitted = 1
                /\ cur.session = "closed"
                /\ cur.send_class = "none"
          /\ cur.send_ret = "False" =>
                /\ cur.failed_at \in {"compose", "connect", "starttls",
                                      "login", "send_message", "quit"}
                /\ cur.send_class \in {"auth", "protocol", "generic"}
                /\ cur.send_class = "auth" <=>
                      (cur.failed_at = "login" /\ cur.exc = "SMTPAuthenticationError")
                /\ cur.send_class = "protocol" <=>
                      (IsInstance(cur.exc, "SMTPException")
                         /\ cur.exc # "SMTPAuthenticationError")
                /\ cur.send_class = "generic" <=>
                      ~IsInstance(cur.exc, "SMTPException")

\* C10 witness: the session close failed after the transmission and
\* send_email returned False with a protocol failure
C10_Witness ==
    /\ pc = "after_send"
    /\ cur.failed_at = "quit"
    /\ cur.transmitted = 1
    /\ cur.send_ret = "False"
    /\ cur.send_class = "protocol"

\* C11: paths of the attachment list that do not exist are skipped, every
\* listed path that exists becomes one part, in list order, composition
\* fails only on a file that exists, and the send goes on to the relay
C11_MissingAttachmentsSkipped ==
    /\ cur.failed_at = "compose" =>
          \E k \in DOMAIN cur.attachments : cur.attachments[k] \in cur.existing
    /\ (pc # "smtp_compose" /\ cur.failed_at # "compose") =>
          /\ Len(cur.attached) =
                Cardinality({ k \in DOMAIN cur.attachments :
                                 cur.attachments[k] \in cur.existing })
          /\ \A k \in DOMAIN cur.attached : cur.attached[k] \in cur.existing
          /\ \E pos \in [DOMAIN cur.attached -> DOMAIN cur.attachments] :
                /\ \A k \in DOMAIN cur.attached :
                      cur.attachments[pos[k]] = cur.attached[k]
                /\ \A j, k \in DOMAIN cur.attached : j < k => pos[j] < pos[k]
          /\ pc \in {"smtp_connect", "smtp_starttls", "smtp_login", "smtp_send",
                     "smtp_quit", "smtp_except", "after_send"}
          /\ pc \in {"smtp_except", "after_send"} =>
                (cur.sessions = 1 \/ cur.failed_at = "connect")

\* C11 witness: of two listed paths the first is missing, the second was
\* attached, and the message was transmitted
C11_Witness ==
    /\ pc = "after_send"
    /\ cur.attachments = <<1, 2>>
    /\ cur.existing = {2}
    /\ cur.attached = <<2>>
    /\ cur.transmitted = 1
    /\ cur.send_ret = "True"

\* The run never got past the start-up check
NothingStarted ==
    /\ pc \in {"main", "exit"}
    /\ pdf_files = <<>>
    /\ invoked = <<>>
    /\ stats = ZeroStats
    /\ cur = FreshDoc(0)

\* C12 (as claimed): a missing API key or a missing relay setting (host,
\* sender address, sender credential) ends the run before the loop: nothing
\* is extracted, no backend call is made, no batch starts
C12_MissingSettingIsFatal ==
    (~cfg.api_key \/ ~cfg.smtp_server \/ ~cfg.sender_email \/ ~cfg.sender_password)
        => NothingStarted

\* C12 (amended): a missing API key ends the run before the loop: nothing is
\* extracted, no backend call is made, no batch starts
C12_MissingApiKeyIsFatal ==
    ~cfg.api_key => NothingStarted

\* C12 witness: main has returned on a configuration without API key, with
\* PDF files waiting in the directory
C12_Witness ==
    /\ pc = "exit"
    /\ ~cfg.api_key
    /\ \E f \in DOMAIN walk : IsPdfName(walk[f])

\* C13: every batch run that starts eventually returns its tally, whatever
\* the list and the outcomes of the documents, given that every external call
\* eventually returns or raises
C13_BatchReturnsTally ==
    (pc = "scan") ~> (pc = "done" /\ stats.total = Len(results))

\* C13 witness: a batch of two documents that both failed has returned
C13_Witness ==
    /\ pc = "done"
    /\ stats.total = 2
    /\ stats.failed = 2

\* How a document ends when processed alone: decided by its own stage
\* results (d) and the configuration (c), and by nothing else
AloneOutcome(c, d) ==
    IF TextLen(d.text) = 0 THEN "False"
    ELSE IF d.summary # "ok" THEN "False"
    ELSE IF ~( /\ c.send_email
               /\ c.smtp_server /\ c.sender_email /\ c.sender_password
               /\ ReceiverEmails(c) # <<>> ) THEN "True"
    ELSE IF d.send_calls = 0 THEN "raised"
    ELSE d.send_ret

\* C14: in a batch every document ends as it would alone, whatever happened
\* to the documents before it, and is counted accordingly, so that the final
\* success count is the number of documents that succeed alone
C14_FailureIsolation ==
    /\ [][ pc = "tally" =>
              /\ cur.ret = AloneOutcome(cfg, cur)
              /\ stats'.success =
                    stats.success + (IF AloneOutcome(cfg, cur) = "True" THEN 1 ELSE 0)
              /\ stats'.failed =
                    stats.failed + (IF AloneOutcome(cfg, cur) = "True" THEN 0 ELSE 1)
         ]_vars
    /\ [](pc = "done" =>
             /\ stats.success =
                   Cardinality({ k \in DOMAIN results : results[k] = "True" })
             /\ stats.failed =
                   Cardinality({ k \in DOMAIN results : results[k] # "True" }))

\* C14 witness: a document without text followed by a valid one gave
\* {total: 2, success: 1, failed: 1}
C14_Witness ==
    /\ pc = "done"
    /\ results = <<"False", "True">>
    /\ stats = [total |-> 2, success |-> 1, failed |-> 1]
    /\ cur.ret = "True"

\* C15: when the directory holds no .pdf file, scan_and_process_pdfs returns
\* {total: 0, success: 0, failed: 0} without raising, without calling
\* process_pdf and without pausing, whatever the cap
C15_EmptyDiscoveryReturnsZeros ==
    (\A f \in DOMAIN walk : ~IsPdfName(walk[f])) =>
        /\ pc \in {"main", "exit", "scan", "done"}
        /\ stats = ZeroStats
        /\ invoked = <<>>
        /\ results = <<>>
        /\ sleeps = 0
        /\ cur = FreshDoc(0)

\* C15 witness: a directory with two files, none of them a PDF, scanned with
\* a cap of 1, has returned
C15_Witness ==
    /\ pc = "done"
    /\ Len(walk) = 2
    /\ \A f \in DOMAIN walk : ~IsPdfName(walk[f])
    /\ cfg.max_files = Some(1)
    /\ stats = ZeroStats

\* The positions inside a process_pdf invocation, up to the loop's counting
InInvocation ==
    pc \in {"extract", "summarize", "deliver", "smtp_compose", "smtp_connect",
            "smtp_starttls", "smtp_login", "smtp_send", "smtp_quit",
            "smtp_except", "after_send", "tally"}

\* C16 (as claimed): the backend is called only after extraction returned
\* text, send_email only after a summary was produced, and every invocation
\* ends in exactly one of EXTRACT_FAILED, SUMMARIZE_FAILED, SEND_FAILED and
\* DONE, with True returned only for DONE
C16_StagesEndInTerminalState ==
    /\ cur.backend_calls > 0 => TextLen(cur.text) > 0
    /\ cur.send_calls > 0 => (cur.backend_calls > 0 /\ cur.summary = "ok")
    /\ pc = "tally" =>
          /\ cur.terminal \in {"EXTRACT_FAILED", "SUMMARIZE_FAILED",
                               "SEND_FAILED", "DONE"}
          /\ cur.ret \in {"True", "False"}
          /\ cur.ret = "True" <=> cur.terminal = "DONE"

\* C17: the k-th process_pdf invocation of a batch runs after exactly k - 1
\* pauses, and the batch ends without a pause after the last invocation,
\* whatever the outcome of each invocation
C17_PauseBetweenInvocationsOnly ==
    /\ InInvocation => sleeps = Len(invoked) - 1
    /\ (pc = "loop" /\ i <= Len(pdf_files)) => sleeps = Len(invoked)
    /\ (pc = "done" /\ invoked # <<>>) =>
          /\ Len(invoked) = Len(pdf_files)
          /\ sleeps = Len(invoked) - 1

\* C17 witness: a batch of two documents, the first of which raised, ended
\* after one pause
C17_Witness ==
    /\ pc = "done"
    /\ results = <<"raised", "True">>
    /\ sleeps = 1

\* C18 (as claimed): within a session the order is connect, login,
\* transmit, close, and every session that was opened is closed when
\* send_email returns, on every exit path
C18_SessionClosedOnEveryExit ==
    /\ cur.logins > 0 => cur.sessions = 1
    /\ cur.transmitted > 0 => cur.logins = 1
    /\ pc \in {"after_send", "tally"} => cur.session # "open"

\* C19: for each document the backend is called at most once, at most one
\* relay session is opened, with at most one login and one transmission
\* attempt, whatever failed; and no document is handed to process_pdf twice
\* in a batch
C19_NoRetry ==
    /\ cur.backend_calls <= 1
    /\ cur.send_calls <= 1
    /\ cur.sessions <= 1
    /\ cur.logins <= 1
    /\ cur.transmits <= 1
    /\ \A m, n \in 1..Len(invoked) : invoked[m] = invoked[n] => m = n

\* Both documents failed after one attempt each, the second one at the
\* transmission, and the batch is over
C19_Witness ==
    /\ pc = "done"
    /\ results = <<"False", "False">>
    /\ Len(invoked) = 2
    /\ cur.backend_calls = 1
    /\ cur.transmits = 1
    /\ cur.transmitted = 0

\* The loop has gone through the whole list
Exhausted == pc = "done" \/ (pc = "loop" /\ i > Len(pdf_files))

\* C20: during a batch total, success and failed never decrease; each
\* completed process_pdf call adds exactly 1 to exactly one of success and
\* failed and nothing else changes them; so after k calls
\* success + failed = k <= total, with equality exactly when the list is
\* exhausted
C20_CountersMonotone ==
    /\ [][ /\ stats'.total >= stats.total
           /\ stats'.success >= stats.success
           /\ stats'.failed >= stats.failed
           /\ pc = "tally" =>
                 /\ stats'.total = stats.total
                 /\ stats'.success + stats'.failed
                       = stats.success + stats.failed + 1
           /\ pc # "tally" =>
                 /\ stats'.success = stats.success
                 /\ stats'.failed = stats.failed
         ]_vars
    /\ [](pc \notin {"main", "exit", "scan"} =>
             /\ stats.success + stats.failed = Len(results)
             /\ Len(results) <= stats.total
             /\ Len(results) = stats.total <=> Exhausted)

\* One call has been counted and one document is still to come
C20_Witness ==
    /\ pc = "loop"
    /\ stats = [total |-> 2, success |-> 1, failed |-> 0]
    /\ results = <<"True">>
    /\ ~Exhausted

\* Delivery is enabled and fully configured for the batch
DeliveryEnabled ==
    ShouldSend(cfg.send_email, EmailSenderOf(cfg), ReceiverEmails(cfg))

\* C21 (as claimed): in a batch with delivery enabled and fully configured,
\* a document is counted in success if and only if its message was
\* transmitted to the relay: exactly one transmitted message for a document
\* counted in success, none for a document counted in failed, also when the
\* failure comes after the transmission, at session close
C21_SuccessIffTransmitted ==
    [][ (pc = "tally" /\ DeliveryEnabled) =>
           /\ stats'.success = stats.success + 1 <=> cur.transmitted = 1
           /\ stats'.success = stats.success + 1 => cur.transmits = 1
           /\ stats'.failed = stats.failed + 1 => cur.transmitted = 0
      ]_vars

====
